---------------------------- MODULE Spec2Model ----------------------------
(***************************************************************************)
(* Model of the CyberSoft contact-form worker (src/src/index.ts).          *)
(*                                                                         *)
(* Conventions.                                                            *)
(*  - A text is a sequence of strings.  A one-character string is a        *)
(*    character that came from an input (request body, header, provider    *)
(*    answer, configuration) or from the sanitizer's entities; a longer    *)
(*    string is a literal of the program (a template segment, a fixed      *)
(*    label or message) or an opaque run of ordinary characters of a       *)
(*    header or configuration value (an origin, a media type).             *)
(*  - A JavaScript value is a record [t, s, n]: t is the kind of value,    *)
(*    s the text of a string, n the number of a number.                    *)
(*  - A JSON object on the wire (a response body, the outbound body) and   *)
(*    a header collection are sets of <<key, value>> pairs.                *)
(***************************************************************************)
EXTENDS Integers, Sequences, FiniteSets, TLC

VARIABLES
    env,        \* the worker's configuration (Env), fixed for a run
    pc,         \* per slot: where the handler of the request in flight stands
    request,    \* per slot: the inbound request (method, pathname, headers)
    corsHeaders,\* per slot: the CORS headers computed at entry
    bodyUsed,   \* per slot: whether the handler has read the request body
    data,       \* per slot: the parsed body (the Submission)
    validation, \* per slot: what validateFormData returned
    outbound,   \* per slot: the outbound requests issued to the mail endpoint
    outcome,    \* per slot: what the mail endpoint answered
    result,     \* per slot: what sendEmail returned
    response    \* per slot: the response the handler returned

vars == <<env, pc, request, corsHeaders, bodyUsed, data, validation, outbound,
          outcome, result, response>>

(***************************************************************************)
(* Bounds                                                                  *)
(***************************************************************************)
\* Number of request slots the runtime may have in flight.
NumSlots == 2

AllSlots == 1..NumSlots

\* The slot the sequential specification Spec runs requests through.
MainSlots == {1}

(***************************************************************************)
(* JavaScript values                                                       *)
(***************************************************************************)
Undefined == [t |-> "undefined", s |-> <<>>, n |-> 0]
JNull == [t |-> "null", s |-> <<>>, n |-> 0]
JStr(text) == [t |-> "string", s |-> text, n |-> 0]
JNum(k) == [t |-> "number", s |-> <<>>, n |-> k]
JTrue == [t |-> "boolean", s |-> <<>>, n |-> 1]
JFalse == [t |-> "boolean", s |-> <<>>, n |-> 0]
\* The empty object literal {}.
JObj == [t |-> "object", s |-> <<>>, n |-> 0]
\* A built-in function or object reached through Object.prototype; s is the
\* text String(value) yields.
JNative(kind, text) == [t |-> kind, s |-> text, n |-> 0]

\* ToBoolean: what `!v`, `v ? a : b` and `v || w` test.
Truthy(v) ==
    CASE v.t = "string" -> v.s # <<>>
      [] v.t = "number" -> v.n # 0
      [] v.t = "boolean" -> v.n = 1
      [] v.t \in {"object", "function"} -> TRUE
      [] OTHER -> FALSE

\* The typeof operator.
TypeOf(v) == IF v.t = "null" THEN "object" ELSE v.t

\* Whether v.replace / v.trim exist, i.e. whether a string method call on v
\* does not throw a TypeError.
HasStringMethods(v) == v.t = "string"

\* String(v), as a template literal `${v}` converts it.
ToText(v) ==
    CASE v.t = "string" -> v.s
      [] v.t = "number" -> <<ToString(v.n)>>
      [] v.t = "boolean" -> IF v.n = 1 THEN <<"true">> ELSE <<"false">>
      [] v.t = "object" -> <<"[object Object]">>
      [] v.t = "function" -> v.s
      [] v.t = "null" -> <<"null">>
      [] OTHER -> <<"undefined">>

(***************************************************************************)
(* Text helpers                                                            *)
(***************************************************************************)
\* The characters \s matches and String.prototype.trim strips.
WhiteSpace == {" ", "\n", "\t", "\r"}

Min(S) == CHOOSE i \in S : \A j \in S : i <= j

\* The first and the last position of a text that holds no white space
\* (called on a text that has one).
firstInk(text) ==
    CHOOSE i \in 1..Len(text) :
        text[i] \notin WhiteSpace /\ \A j \in 1..(i - 1) : text[j] \in WhiteSpace
lastInk(text) ==
    CHOOSE i \in 1..Len(text) :
        text[i] \notin WhiteSpace /\ \A j \in (i + 1)..Len(text) : text[j] \in WhiteSpace

isWhite(text) == \A i \in 1..Len(text) : text[i] \in WhiteSpace

\* String.prototype.trim
trim(text) ==
    IF isWhite(text) THEN <<>> ELSE SubSeq(text, firstInk(text), lastInk(text))

\* String.prototype.trimEnd, the part of trim that can reach an embedded value
\* at the end of a template.
trimEnd(text) ==
    IF isWhite(text) THEN <<>> ELSE SubSeq(text, 1, lastInk(text))

\* text.replace(/ch/g, by): every occurrence of the character ch replaced by
\* the text `by`.  Halving keeps the recursion shallow on long texts.
RECURSIVE replaceAll(_, _, _)
replaceAll(text, ch, by) ==
    IF Len(text) = 0 THEN <<>>
    ELSE IF Len(text) = 1 THEN (IF text[1] = ch THEN by ELSE text)
    ELSE LET h == Len(text) \div 2
         IN  replaceAll(SubSeq(text, 1, h), ch, by)
                \o replaceAll(SubSeq(text, h + 1, Len(text)), ch, by)

\* String.prototype.includes for a literal that is one run of the text.
includes(text, literal) == \E i \in 1..Len(text) : text[i] = literal

\* String.prototype.split(','), on a non-empty text.
RECURSIVE split(_)
split(text) ==
    LET commas == {i \in 1..Len(text) : text[i] = ","}
    IN  IF commas = {} THEN <<text>>
        ELSE <<SubSeq(text, 1, Min(commas) - 1)>>
                \o split(SubSeq(text, Min(commas) + 1, Len(text)))

\* Array.prototype.map(o => o.trim())
RECURSIVE mapTrim(_)
mapTrim(list) ==
    IF list = <<>> THEN <<>> ELSE <<trim(Head(list))>> \o mapTrim(Tail(list))

Range(f) == {f[i] : i \in DOMAIN f}

(***************************************************************************)
(* PROJECT_TYPES                                                           *)
(***************************************************************************)
Key_website == <<"w", "e", "b", "s", "i", "t", "e">>
Key_saas == <<"s", "a", "a", "s">>
Key_integration == <<"i", "n", "t", "e", "g", "r", "a", "t", "i", "o", "n">>
Key_other == <<"o", "t", "h", "e", "r">>
Key_constructor == <<"c", "o", "n", "s", "t", "r", "u", "c", "t", "o", "r">>
Key_toString == <<"t", "o", "S", "t", "r", "i", "n", "g">>
Key_valueOf == <<"v", "a", "l", "u", "e", "O", "f">>
Key_proto == <<"_", "_", "p", "r", "o", "t", "o", "_", "_">>

\* PROJECT_TYPES[key]: the record's own entries, then (PROJECT_TYPES being an
\* object literal) what the key reaches through Object.prototype, else
\* undefined.
PROJECT_TYPES(key) ==
    CASE key = Key_website -> JStr(<<"Website Development">>)
      [] key = Key_saas -> JStr(<<"SaaS Platform">>)
      [] key = Key_integration -> JStr(<<"Integration">>)
      [] key = Key_other -> JStr(<<"Other">>)
      [] key = Key_constructor ->
            JNative("function", <<"function Object() { [native code] }">>)
      [] key = Key_toString ->
            JNative("function", <<"function toString() { [native code] }">>)
      [] key = Key_valueOf ->
            JNative("function", <<"function valueOf() { [native code] }">>)
      [] key = Key_proto -> JObj
      [] OTHER -> Undefined

\* PROJECT_TYPES[data.projectType] || data.projectType
projectTypeLabel(d) ==
    IF Truthy(PROJECT_TYPES(d.projectType.s))
    THEN PROJECT_TYPES(d.projectType.s)
    ELSE d.projectType

(***************************************************************************)
(* getCorsHeaders                                                          *)
(***************************************************************************)
DefaultOrigins == <<(<<"https://cybersoft.az">>), (<<"https://www.cybersoft.az">>)>>

allowedOrigins(e) ==
    IF Truthy(e.ALLOWED_ORIGINS)
    THEN mapTrim(split(e.ALLOWED_ORIGINS.s))
    ELSE DefaultOrigins

isAllowedOrigin(origin, e) ==
    Truthy(origin) /\ origin.s \in Range(allowedOrigins(e))

getCorsHeaders_echo(origin, e) ==
    { <<"Access-Control-Allow-Origin",
        IF Truthy(origin) THEN origin.s ELSE allowedOrigins(e)[1]>>,
      <<"Access-Control-Allow-Methods", <<"POST, OPTIONS">>>>,
      <<"Access-Control-Allow-Headers", <<"Content-Type">>>>,
      <<"Access-Control-Max-Age", <<"86400">>>> }

getCorsHeaders(origin, e) ==
    { <<"Access-Control-Allow-Origin",
        IF isAllowedOrigin(origin, e) THEN origin.s ELSE allowedOrigins(e)[1]>>,
      <<"Access-Control-Allow-Methods", <<"POST, OPTIONS">>>>,
      <<"Access-Control-Allow-Headers", <<"Content-Type">>>>,
      <<"Access-Control-Max-Age", <<"86400">>>> }

(***************************************************************************)
(* Validator                                                               *)
(***************************************************************************)
MaxMessageLength == 5000

\* /^[^\s@]+@[^\s@]+\.[^\s@]+$/.test(email)
isValidEmail(email) ==
    LET plain(a, b) == \A k \in a..b : email[k] \notin (WhiteSpace \cup {"@"})
    IN  \E i \in 2..Len(email) :
          /\ email[i] = "@"
          /\ plain(1, i - 1)
          /\ \E j \in (i + 2)..(Len(email) - 1) :
                /\ email[j] = "."
                /\ plain(i + 1, j - 1)
                /\ plain(j + 1, Len(email))

\* What request.json() settles to: a SyntaxError, null, a JSON value that is
\* not an object (a number, a string, a boolean, an array), or an object.
NonObject(kind) ==
    [kind |-> kind, name |-> Undefined, email |-> Undefined, company |-> Undefined,
     projectType |-> Undefined, message |-> Undefined]

\* data.<field>: undefined on a JSON value that is not an object (a number, a
\* string, a boolean, an array).  On null the access throws (see
\* validateFormData).
Field(d, f) == IF d.kind = "object" THEN d[f] ELSE Undefined

\* !v || typeof v !== 'string' || !v.trim()
IsBlank(v) == ~Truthy(v) \/ TypeOf(v) # "string" \/ trim(v.s) = <<>>

Invalid(message) == [threw |-> FALSE, valid |-> FALSE, error |-> JStr(<<message>>)]
Valid == [threw |-> FALSE, valid |-> TRUE, error |-> Undefined]
\* The function did not return: an exception propagates to the caller.
Threw == [threw |-> TRUE, valid |-> FALSE, error |-> Undefined]

validateFormData_emailFirst(d) ==
    IF d.kind = "null" THEN Threw
    ELSE IF IsBlank(Field(d, "email")) THEN Invalid("Email is required")
    ELSE IF IsBlank(Field(d, "name")) THEN Invalid("Name is required")
    ELSE IF ~isValidEmail(Field(d, "email").s) THEN Invalid("Invalid email address")
    ELSE IF ~Truthy(Field(d, "projectType")) \/ TypeOf(Field(d, "projectType")) # "string"
    THEN Invalid("Project type is required")
    ELSE IF IsBlank(Field(d, "message")) THEN Invalid("Message is required")
    ELSE IF Len(Field(d, "message").s) > MaxMessageLength
    THEN Invalid("Message is too long (max 5000 characters)")
    ELSE Valid

validateFormData_offByOne(d) ==
    IF d.kind = "null" THEN Threw
    ELSE IF IsBlank(Field(d, "name")) THEN Invalid("Name is required")
    ELSE IF IsBlank(Field(d, "email")) THEN Invalid("Email is required")
    ELSE IF ~isValidEmail(Field(d, "email").s) THEN Invalid("Invalid email address")
    ELSE IF ~Truthy(Field(d, "projectType")) \/ TypeOf(Field(d, "projectType")) # "string"
    THEN Invalid("Project type is required")
    ELSE IF IsBlank(Field(d, "message")) THEN Invalid("Message is required")
    ELSE IF Len(Field(d, "message").s) >= MaxMessageLength
    THEN Invalid("Message is too long (max 5000 characters)")
    ELSE Valid

validateFormData(d) ==
    IF d.kind = "null" THEN Threw
    ELSE IF IsBlank(Field(d, "name")) THEN Invalid("Name is required")
    ELSE IF IsBlank(Field(d, "email")) THEN Invalid("Email is required")
    ELSE IF ~isValidEmail(Field(d, "email").s) THEN Invalid("Invalid email address")
    ELSE IF ~Truthy(Field(d, "projectType")) \/ TypeOf(Field(d, "projectType")) # "string"
    THEN Invalid("Project type is required")
    ELSE IF IsBlank(Field(d, "message")) THEN Invalid("Message is required")
    ELSE IF Len(Field(d, "message").s) > MaxMessageLength
    THEN Invalid("Message is too long (max 5000 characters)")
    ELSE Valid


(***************************************************************************)
(* Sanitizer                                                               *)
(***************************************************************************)
Amp == <<"&", "a", "m", "p", ";">>
Lt == <<"&", "l", "t", ";">>
Gt == <<"&", "g", "t", ";">>
Quot == <<"&", "q", "u", "o", "t", ";">>
Apos == <<"&", "#", "0", "3", "9", ";">>

sanitizeHtml(text) ==
    replaceAll(
        replaceAll(
            replaceAll(
                replaceAll(
                    replaceAll(text, "&", Amp),
                    "<", Lt),
                ">", Gt),
            "\"", Quot),
        "'", Apos)

(***************************************************************************)
(* Template Renderer                                                       *)
(***************************************************************************)
\* A renderer either returns the rendition or throws.
Rendered(text) == [threw |-> FALSE, text |-> text]
RenderThrew == [threw |-> TRUE, text |-> <<>>]

\* data.company ? sanitizeHtml(data.company) : '' ; sanitizeHtml calls
\* text.replace, which only a string has.
sanitizedCompany(d) ==
    IF ~Truthy(d.company) THEN Rendered(<<>>)
    ELSE IF HasStringMethods(d.company) THEN Rendered(sanitizeHtml(d.company.s))
    ELSE RenderThrew

\* The template literal of generateEmailHtml, already trimmed: its first and
\* last segments are markup of the template, so trim() removes template
\* whitespace only.  The <head> (styles) is one segment.
generateEmailHtml(d) ==
    LET label == ToText(projectTypeLabel(d))
        sanitizedName == sanitizeHtml(d.name.s)
        sanitizedEmail == sanitizeHtml(d.email.s)
        company == sanitizedCompany(d)
        sanitizedMessage == replaceAll(sanitizeHtml(d.message.s), "\n", <<"<br>">>)
    IN  IF company.threw THEN RenderThrew
        ELSE Rendered(
            <<"<!DOCTYPE html><html><head>...</head><body><div class=\"container\">",
              "<div class=\"header\"><h1>New Contact Form Submission</h1><p>From cybersoft.az</p></div>",
              "<div class=\"content\"><div class=\"field\"><span class=\"label\">Name</span><div class=\"value\">">>
            \o sanitizedName
            \o <<"</div></div><div class=\"field\"><span class=\"label\">Email</span><div class=\"value\"><a href=\"mailto:">>
            \o sanitizedEmail
            \o <<"\">">>
            \o sanitizedEmail
            \o <<"</a></div></div>">>
            \o (IF company.text # <<>>
                THEN <<"<div class=\"field\"><span class=\"label\">Company</span><div class=\"value\">">>
                        \o company.text \o <<"</div></div>">>
                ELSE <<>>)
            \o <<"<div class=\"field\"><span class=\"label\">Project Type</span><div class=\"value\">">>
            \o label
            \o <<"</div></div><div class=\"field\"><span class=\"label\">Message</span><div class=\"message-box\">">>
            \o sanitizedMessage
            \o <<"</div></div></div><div class=\"footer\"><p><strong>This message was sent from the contact form on cybersoft.az</strong></p>",
                 "<p>Reply directly to this email to respond to ">>
            \o sanitizedName
            \o <<"</p></div></div></body></html>">>)

\* The template literal of generateEmailText; the final trim() reaches the
\* trailing whitespace of the name embedded in the last line.
generateEmailText(d) ==
    LET label == ToText(projectTypeLabel(d))
    IN  <<"New Contact Form Submission from cybersoft.az\n=============================================\n\nName: ">>
        \o d.name.s
        \o <<"\nEmail: ">>
        \o d.email.s
        \o <<"\n">>
        \o (IF Truthy(d.company)
            THEN <<"Company: ">> \o ToText(d.company) \o <<"\n">>
            ELSE <<>>)
        \o <<"Project Type: ">>
        \o label
        \o <<"\n\nMessage:\n">>
        \o d.message.s
        \o <<"\n\n---\nReply directly to this email to respond to ">>
        \o trimEnd(d.name.s)

(***************************************************************************)
(* Delivery Client: sendEmail                                              *)
(***************************************************************************)
MailEndpoint == "https://cybersoftbackend.cybersoftmmc.workers.dev/api/contact"

GenericFailure == <<"Failed to send email. Please try again later.">>

\* What sendEmail returns.
Success(messageId) == [success |-> TRUE, messageId |-> messageId, error |-> Undefined]
Failure(reason) == [success |-> FALSE, messageId |-> Undefined, error |-> JStr(reason)]

\* The arguments of the outbound fetch: evaluated inside sendEmail's try
\* block, so a renderer that throws is caught there and no request is issued.
sendEmailRequest(d, e) ==
    LET html == generateEmailHtml(d)
    IN  IF html.threw THEN [threw |-> TRUE, url |-> MailEndpoint, method |-> "POST",
                            headers |-> {}, body |-> {}]
        ELSE [threw |-> FALSE,
              url |-> MailEndpoint,
              method |-> "POST",
              headers |-> { <<"Content-Type", <<"application/json">>>>,
                            <<"Authorization", <<"Bearer ">> \o e.RESEND_API_KEY>> },
              body |-> { <<"from", <<"CyberSoft Contact Form <noreply@cybersoft.az>">>>>,
                         <<"to", <<"sales@cybersoft.az">>>>,
                         <<"reply_to", d.email.s>>,
                         <<"subject", <<"New Contact: ">> \o d.name.s \o <<" - ">>
                                        \o ToText(projectTypeLabel(d))>>,
                         <<"html", html.text>>,
                         <<"text", generateEmailText(d)>> }]

\* The provider's answer, as sendEmail meets it:
\*   kind "reject"   the fetch promise rejects (transport error);
\*   kind "response" a response with `ok`, a body that either can be read or not
\*                   (`readable`), error text `text`, and for response.json()
\*                   either a SyntaxError (json.kind "SyntaxError"), null, a
\*                   non-object JSON value, or an object with or without id.
\* result.id on the parsed body.
ResultId(json) == IF json.kind = "object" THEN json.id ELSE Undefined

sendEmailResult_leak(o) ==
    IF o.kind = "reject" THEN Failure(o.text)
    ELSE IF ~o.ok THEN Failure(o.text)
    ELSE IF ~o.readable \/ o.json.kind \in {"SyntaxError", "null"} THEN Failure(GenericFailure)
    ELSE Success(ResultId(o.json))

sendEmailResult(o) ==
    IF o.kind = "reject" THEN Failure(GenericFailure)
    ELSE IF ~o.ok THEN Failure(GenericFailure)
    ELSE IF ~o.readable \/ o.json.kind \in {"SyntaxError", "null"} THEN Failure(GenericFailure)
    ELSE Success(ResultId(o.json))

(***************************************************************************)
(* Request Router: the fetch handler                                       *)
(***************************************************************************)
\* JSON.stringify of an object literal: keys whose value is undefined are
\* left out.
JSONstringify(pairs) == {p \in pairs : p[2] # Undefined}

\* new Response(null, ...)
NoBody == {}

NoResponse == [status |-> 0, headers |-> {}, body |-> NoBody]

JsonResponse(status, pairs, cors) ==
    [status |-> status,
     headers |-> {<<"Content-Type", <<"application/json">>>>} \cup cors,
     body |-> JSONstringify(pairs)]

ErrorBody(message) == {<<"success", JFalse>>, <<"error", message>>}

PreflightResponse(cors) == [status |-> 204, headers |-> cors, body |-> NoBody]

NotFoundResponse(cors) == JsonResponse(404, ErrorBody(JStr(<<"Not Found">>)), cors)

ContentTypeResponse(cors) ==
    JsonResponse(400, ErrorBody(JStr(<<"Content-Type must be application/json">>)), cors)

ValidationResponse(v, cors) == JsonResponse(400, ErrorBody(v.error), cors)

InternalErrorResponse_noCors(cors) ==
    JsonResponse(500, ErrorBody(JStr(<<"Internal server error">>)), {})

InternalErrorResponse(cors) ==
    JsonResponse(500, ErrorBody(JStr(<<"Internal server error">>)), cors)

DeliveryFailureResponse(res, cors) == JsonResponse(500, ErrorBody(res.error), cors)

SuccessResponse_noId(res, cors) ==
    JsonResponse(200, { <<"success", JTrue>>,
                        <<"message", JStr(<<"Email sent successfully">>)>> }, cors)

SuccessResponse(res, cors) ==
    JsonResponse(200, { <<"success", JTrue>>,
                        <<"messageId", res.messageId>>,
                        <<"message", JStr(<<"Email sent successfully">>)>> }, cors)

contentTypeRejected_missingOnly(contentType) == ~Truthy(contentType)

\* !contentType || !contentType.includes('application/json')
contentTypeRejected(contentType) ==
    ~Truthy(contentType) \/ ~includes(contentType.s, "application/json")

\* The handler from its entry to its first suspension: the CORS headers, the
\* preflight, the routing and the Content-Type check.  at "json" the handler
\* is suspended in `await request.json()`.
fetchEntry_anyPath(req, cors) ==
    IF req.method = "OPTIONS"
    THEN [at |-> "done", response |-> PreflightResponse(cors)]
    ELSE IF req.method # "POST"
    THEN [at |-> "done", response |-> NotFoundResponse(cors)]
    ELSE IF contentTypeRejected(req.contentType)
    THEN [at |-> "done", response |-> ContentTypeResponse(cors)]
    ELSE [at |-> "json", response |-> NoResponse]

fetchEntry(req, cors) ==
    IF req.method = "OPTIONS"
    THEN [at |-> "done", response |-> PreflightResponse(cors)]
    ELSE IF req.method # "POST" \/ req.pathname # "/api/contact"
    THEN [at |-> "done", response |-> NotFoundResponse(cors)]
    ELSE IF contentTypeRejected(req.contentType)
    THEN [at |-> "done", response |-> ContentTypeResponse(cors)]
    ELSE [at |-> "json", response |-> NoResponse]

\* sendEmail when the arguments of its fetch could not be built: the catch
\* block's result.
RenderFailure == Failure(GenericFailure)

\* Slots' values while validateFormData / sendEmail have not returned.
NoValidation == [threw |-> FALSE, valid |-> FALSE, error |-> Undefined]
NoResult == [success |-> FALSE, messageId |-> Undefined, error |-> Undefined]

\* The handler answering a body that is not JSON like a body without fields:
\* the Validator's 400 instead of the catch block's 500.
fetchAfterJson_parseIs400(d, cors, e) ==
    IF d.kind = "SyntaxError"
    THEN [at |-> "done",
          response |-> ValidationResponse(validateFormData(NonObject("primitive")), cors),
          validation |-> validateFormData(NonObject("primitive")),
          issued |-> <<>>, result |-> NoResult]
    ELSE LET v == validateFormData(d)
         IN  IF v.threw
             THEN [at |-> "done", response |-> InternalErrorResponse(cors),
                   validation |-> v, issued |-> <<>>, result |-> NoResult]
             ELSE IF ~v.valid
             THEN [at |-> "done", response |-> ValidationResponse(v, cors),
                   validation |-> v, issued |-> <<>>, result |-> NoResult]
             ELSE LET rq == sendEmailRequest(d, e)
                  IN  IF rq.threw
                      THEN [at |-> "done",
                            response |-> DeliveryFailureResponse(RenderFailure, cors),
                            validation |-> v, issued |-> <<>>, result |-> RenderFailure]
                      ELSE [at |-> "fetch", response |-> NoResponse,
                            validation |-> v, issued |-> <<rq>>, result |-> NoResult]

\* The handler issuing its outbound request twice.
fetchAfterJson_twice(d, cors, e) ==
    IF d.kind = "SyntaxError"
    THEN [at |-> "done", response |-> InternalErrorResponse(cors),
          validation |-> NoValidation, issued |-> <<>>, result |-> NoResult]
    ELSE LET v == validateFormData(d)
         IN  IF v.threw
             THEN [at |-> "done", response |-> InternalErrorResponse(cors),
                   validation |-> v, issued |-> <<>>, result |-> NoResult]
             ELSE IF ~v.valid
             THEN [at |-> "done", response |-> ValidationResponse(v, cors),
                   validation |-> v, issued |-> <<>>, result |-> NoResult]
             ELSE LET rq == sendEmailRequest(d, e)
                  IN  IF rq.threw
                      THEN [at |-> "done",
                            response |-> DeliveryFailureResponse(RenderFailure, cors),
                            validation |-> v, issued |-> <<>>, result |-> RenderFailure]
                      ELSE [at |-> "fetch", response |-> NoResponse,
                            validation |-> v, issued |-> <<rq, rq>>, result |-> NoResult]

\* The handler without its try/catch: an exception of request.json() or of
\* validateFormData leaves the handler (at "crashed") and no response is
\* returned.
fetchAfterJson_noCatch(d, cors, e) ==
    IF d.kind = "SyntaxError" \/ validateFormData(d).threw
    THEN [at |-> "crashed", response |-> NoResponse,
          validation |-> NoValidation, issued |-> <<>>, result |-> NoResult]
    ELSE LET v == validateFormData(d)
             rq == sendEmailRequest(d, e)
         IN  IF ~v.valid
             THEN [at |-> "done", response |-> ValidationResponse(v, cors),
                   validation |-> v, issued |-> <<>>, result |-> NoResult]
             ELSE IF rq.threw
             THEN [at |-> "done",
                   response |-> DeliveryFailureResponse(RenderFailure, cors),
                   validation |-> v, issued |-> <<>>, result |-> RenderFailure]
             ELSE [at |-> "fetch", response |-> NoResponse,
                   validation |-> v, issued |-> <<rq>>, result |-> NoResult]

\* The handler from the settling of request.json() to its next suspension:
\* the parse result, the Validator, and sendEmail up to its outbound fetch.
\* at "fetch" the handler is suspended in sendEmail's `await fetch(...)`.
fetchAfterJson(d, cors, e) ==
    IF d.kind = "SyntaxError"
    THEN [at |-> "done", response |-> InternalErrorResponse(cors),
          validation |-> NoValidation, issued |-> <<>>, result |-> NoResult]
    ELSE LET v == validateFormData(d)
         IN  IF v.threw
             THEN [at |-> "done", response |-> InternalErrorResponse(cors),
                   validation |-> v, issued |-> <<>>, result |-> NoResult]
             ELSE IF ~v.valid
             THEN [at |-> "done", response |-> ValidationResponse(v, cors),
                   validation |-> v, issued |-> <<>>, result |-> NoResult]
             ELSE LET rq == sendEmailRequest(d, e)
                  IN  IF rq.threw
                      THEN [at |-> "done",
                            response |-> DeliveryFailureResponse(RenderFailure, cors),
                            validation |-> v, issued |-> <<>>, result |-> RenderFailure]
                      ELSE [at |-> "fetch", response |-> NoResponse,
                            validation |-> v, issued |-> <<rq>>, result |-> NoResult]

\* The handler after sendEmail returned.
fetchAfterSend(res, cors) ==
    IF ~res.success
    THEN DeliveryFailureResponse(res, cors)
    ELSE SuccessResponse(res, cors)

(***************************************************************************)
(* Inputs                                                                  *)
(***************************************************************************)
Methods == {"OPTIONS", "POST", "GET"}
Pathnames == {"/api/contact", "/api/contact/", "/"}

\* request.headers.get('Origin'): null when the header is absent.
Origins ==
    { JNull, JStr(<<>>), JStr(<<"https://cybersoft.az">>),
      JStr(<<"https://app.test">>), JStr(<<"https://evil.example">>) }

\* request.headers.get('Content-Type')
ContentTypes ==
    { JNull, JStr(<<"application/json">>), JStr(<<"text/plain">>),
      JStr(<<"application/json", "; charset=utf-8">>) }

Requests ==
    [method : Methods, pathname : Pathnames, origin : Origins, contentType : ContentTypes]

NoRequest == [method |-> "", pathname |-> "", origin |-> JNull, contentType |-> JNull]

\* env: ALLOWED_ORIGINS unset, set to the empty string, set to a list with
\* blanks around its entries, set to a list with a trailing comma.
Envs ==
    [ RESEND_API_KEY : {<<"re_key">>},
      ALLOWED_ORIGINS :
        { Undefined, JStr(<<>>),
          JStr(<<"https://app.test", ",", " ", "https://cybersoft.az", " ">>),
          JStr(<<"https://app.test", ",">>) } ]

\* A text of n characters "a".
Filler(n) == SubSeq([i \in 1..n |-> "a"], 1, n)

LongMessage == Filler(MaxMessageLength + 1)

\* A message of exactly the greatest accepted length.
FullMessage == Filler(MaxMessageLength)

\* A text of n blanks.
Blanks(n) == SubSeq([i \in 1..n |-> " "], 1, n)

\* A message of white space only, longer than the greatest accepted length.
BlankMessage == Blanks(MaxMessageLength + 1)

Names ==
    { Undefined, JNum(5), JStr(<<" ">>), JStr(<<"A", "l", " ">>),
      JStr(<<"<", "b", ">", "&", "\"", "'">>) }
Emails ==
    { Undefined, JStr(<<" ">>), JStr(<<"a", "@", "b">>),
      JStr(<<"a", "@", "b", ".", "c", "o">>),
      JStr(<<"<", "&", "'", "@", "b", ".", "c">>) }
Companies == { Undefined, JStr(<<>>), JStr(<<"C", "&", "o">>), JNum(7), JObj }
ProjectTypeValues ==
    { Undefined, JStr(<<>>), JStr(<<" ">>), JStr(Key_website),
      JStr(<<"<", "i", ">">>), JStr(Key_constructor) }
Messages == { Undefined, JStr(<<" ", "\n">>), JStr(<<"H", "i", "\n", "<", "&">>) }

Bodies ==
    {NonObject("SyntaxError"), NonObject("null"), NonObject("primitive")}
    \cup [kind : {"object"}, name : Names, email : Emails, company : Companies,
          projectType : ProjectTypeValues, message : Messages]
    \cup [kind : {"object"}, name : {Undefined, JStr(<<"A", "l", " ">>)},
          email : {JStr(<<"a", "@", "b">>), JStr(<<"a", "@", "b", ".", "c", "o">>)},
          company : {Undefined},
          projectType : {Undefined, JStr(Key_website)},
          message : {JStr(LongMessage)}]

NoData == NonObject("none")

ErrorTexts == {<<"e", "1">>, <<"e", "2">>}

NoJson == [kind |-> "none", id |-> Undefined]

ProviderJson ==
    { [kind |-> "SyntaxError", id |-> Undefined],
      [kind |-> "null", id |-> Undefined],
      [kind |-> "primitive", id |-> Undefined],
      [kind |-> "object", id |-> Undefined],
      [kind |-> "object", id |-> JNull],
      [kind |-> "object", id |-> JStr(<<"i", "d", "1">>)],
      [kind |-> "object", id |-> JStr(<<"i", "d", "2">>)] }

Outcomes ==
    [kind : {"reject"}, ok : {FALSE}, readable : {FALSE}, text : ErrorTexts, json : {NoJson}]
    \cup [kind : {"response"}, ok : {FALSE}, readable : {TRUE}, text : ErrorTexts, json : {NoJson}]
    \cup [kind : {"response"}, ok : {FALSE}, readable : {FALSE}, text : {<<>>}, json : {NoJson}]
    \cup [kind : {"response"}, ok : {TRUE}, readable : {TRUE}, text : {<<>>}, json : ProviderJson]

NoOutcome == [kind |-> "none", ok |-> FALSE, readable |-> FALSE, text |-> <<>>, json |-> NoJson]

(***************************************************************************)
(* State machine                                                           *)
(***************************************************************************)
Init ==
    /\ env \in Envs
    /\ pc = [r \in AllSlots |-> "idle"]
    /\ request = [r \in AllSlots |-> NoRequest]
    /\ corsHeaders = [r \in AllSlots |-> {}]
    /\ bodyUsed = [r \in AllSlots |-> FALSE]
    /\ data = [r \in AllSlots |-> NoData]
    /\ validation = [r \in AllSlots |-> NoValidation]
    /\ outbound = [r \in AllSlots |-> <<>>]
    /\ outcome = [r \in AllSlots |-> NoOutcome]
    /\ result = [r \in AllSlots |-> NoResult]
    /\ response = [r \in AllSlots |-> NoResponse]

\* A request (one of `requests`) arrives and the handler runs to its first
\* suspension or return.
FetchOf(r, requests) ==
    /\ pc[r] = "idle"
    /\ \E req \in requests :
        LET cors == getCorsHeaders(req.origin, env)
            step == fetchEntry(req, cors)
        IN  /\ request' = [request EXCEPT ![r] = req]
            /\ corsHeaders' = [corsHeaders EXCEPT ![r] = cors]
            /\ pc' = [pc EXCEPT ![r] = step.at]
            /\ response' = [response EXCEPT ![r] = step.response]
    /\ UNCHANGED <<env, bodyUsed, data, validation, outbound, outcome, result>>

\* request.json() settles (to one of `bodies`); the handler runs to its next
\* suspension or return.
AfterJsonOf(r, bodies) ==
    /\ pc[r] = "json"
    /\ \E d \in bodies :
        LET step == fetchAfterJson(d, corsHeaders[r], env)
        IN  /\ data' = [data EXCEPT ![r] = d]
            /\ validation' = [validation EXCEPT ![r] = step.validation]
            /\ bodyUsed' = [bodyUsed EXCEPT ![r] = TRUE]
            /\ outbound' = [outbound EXCEPT ![r] = @ \o step.issued]
            /\ result' = [result EXCEPT ![r] = step.result]
            /\ pc' = [pc EXCEPT ![r] = step.at]
            /\ response' = [response EXCEPT ![r] = step.response]
    /\ UNCHANGED <<env, request, corsHeaders, outcome>>

\* The resumption with the CORS headers kept in one place for all requests:
\* the response is built with the headers of any request in flight.
AfterFetchOf_crossed(r, outcomes) ==
    /\ pc[r] = "fetch"
    /\ \E o \in outcomes, q \in AllSlots :
        LET res == sendEmailResult(o)
        IN  /\ pc[q] # "idle"
            /\ outcome' = [outcome EXCEPT ![r] = o]
            /\ result' = [result EXCEPT ![r] = res]
            /\ response' = [response EXCEPT ![r] = fetchAfterSend(res, corsHeaders[q])]
            /\ pc' = [pc EXCEPT ![r] = "done"]
    /\ UNCHANGED <<env, request, corsHeaders, bodyUsed, data, validation, outbound>>

\* The outbound fetch settles (to one of `outcomes`); sendEmail returns and
\* the handler responds.
AfterFetchOf(r, outcomes) ==
    /\ pc[r] = "fetch"
    /\ \E o \in outcomes :
        LET res == sendEmailResult(o)
        IN  /\ outcome' = [outcome EXCEPT ![r] = o]
            /\ result' = [result EXCEPT ![r] = res]
            /\ response' = [response EXCEPT ![r] = fetchAfterSend(res, corsHeaders[r])]
            /\ pc' = [pc EXCEPT ![r] = "done"]
    /\ UNCHANGED <<env, request, corsHeaders, bodyUsed, data, validation, outbound>>

\* The response has been sent: the request and its Submission are discarded.
Discard(r) ==
    /\ pc[r] = "done"
    /\ pc' = [pc EXCEPT ![r] = "idle"]
    /\ request' = [request EXCEPT ![r] = NoRequest]
    /\ corsHeaders' = [corsHeaders EXCEPT ![r] = {}]
    /\ bodyUsed' = [bodyUsed EXCEPT ![r] = FALSE]
    /\ data' = [data EXCEPT ![r] = NoData]
    /\ validation' = [validation EXCEPT ![r] = NoValidation]
    /\ outbound' = [outbound EXCEPT ![r] = <<>>]
    /\ outcome' = [outcome EXCEPT ![r] = NoOutcome]
    /\ result' = [result EXCEPT ![r] = NoResult]
    /\ response' = [response EXCEPT ![r] = NoResponse]
    /\ UNCHANGED env

Fetch(r) == FetchOf(r, Requests)
AfterJson(r) == AfterJsonOf(r, Bodies)
AfterFetch(r) == AfterFetchOf(r, Outcomes)

Next ==
    \E r \in MainSlots :
        \/ Fetch(r)
        \/ AfterJson(r)
        \/ AfterFetch(r)
        \/ Discard(r)

Spec == Init /\ [][Next]_vars

\* Records around the greatest accepted message length: messages of 5000 and
\* of 5001 characters, 5001 blanks, and short ones, in records that pass or
\* fail an earlier check.
BoundaryBodies ==
    [kind : {"object"},
     name : {Undefined, JStr(<<"A", "l", " ">>)},
     email : {JStr(<<"a", "@", "b">>), JStr(<<"a", "@", "b", ".", "c", "o">>)},
     company : {Undefined},
     projectType : {Undefined, JStr(Key_website)},
     message : {JStr(LongMessage), JStr(FullMessage), JStr(BlankMessage),
                JStr(<<" ", "\n">>), JStr(<<"H", "i", "\n", "<", "&">>)}]

BoundaryAfterJson(r) == AfterJsonOf(r, BoundaryBodies)

BoundaryNext ==
    \E r \in MainSlots :
        \/ Fetch(r)
        \/ BoundaryAfterJson(r)
        \/ AfterFetch(r)
        \/ Discard(r)

BoundarySpec == Init /\ [][BoundaryNext]_vars

\* One body for every way through the handler after request.json(): a body
\* that is not JSON, null, a JSON value that is no object, a record failing a
\* check, and valid records whose company is absent, a text, a number.
PathBodies ==
    {NonObject("SyntaxError"), NonObject("null"), NonObject("primitive")}
    \cup [kind : {"object"},
          name : {Undefined, JStr(<<"A", "l", " ">>)},
          email : {JStr(<<"a", "@", "b", ".", "c", "o">>)},
          company : {Undefined, JStr(<<"C", "&", "o">>), JNum(7)},
          projectType : {JStr(Key_website), JStr(Key_constructor)},
          message : {JStr(<<" ", "\n">>), JStr(<<"H", "i", "\n", "<", "&">>)}]

LiveAfterJson(r) == AfterJsonOf(r, PathBodies)

LiveNext ==
    \E r \in MainSlots :
        \/ Fetch(r)
        \/ LiveAfterJson(r)
        \/ AfterFetch(r)
        \/ Discard(r)

\* Every promise the handler awaits settles: request.json() resolves or
\* rejects, and the provider eventually answers or the fetch throws.
Settling ==
    \A r \in MainSlots : WF_vars(LiveAfterJson(r)) /\ WF_vars(AfterFetch(r))

LiveSpec == Init /\ [][LiveNext]_vars /\ Settling

\* Several requests in flight at once: the runtime calls fetch again while
\* earlier invocations are suspended at request.json() or at the outbound
\* fetch, and resumes them in any order.  Requests from two origins, with
\* records of two submitters, and provider answers that differ.
ConcRequests ==
    [method : {"POST", "OPTIONS"}, pathname : {"/api/contact"},
     origin : {JStr(<<"https://cybersoft.az">>), JStr(<<"https://app.test">>)},
     contentType : {JStr(<<"application/json">>)}]

ConcBodies ==
    { NonObject("SyntaxError"),
      [kind |-> "object", name |-> JStr(<<"A", "l">>),
       email |-> JStr(<<"a", "@", "b", ".", "c", "o">>), company |-> Undefined,
       projectType |-> JStr(Key_website), message |-> JStr(<<"H", "i">>)],
      [kind |-> "object", name |-> JStr(<<"B", "o">>),
       email |-> JStr(<<"b", "@", "c", ".", "a", "z">>), company |-> JStr(<<"C", "&", "o">>),
       projectType |-> JStr(Key_saas), message |-> JStr(<<"Y", "o", "<">>)],
      [kind |-> "object", name |-> JStr(<<"B", "o">>),
       email |-> JStr(<<"a", "@", "b">>), company |-> Undefined,
       projectType |-> JStr(Key_saas), message |-> JStr(<<"Y", "o", "<">>)] }

ConcOutcomes ==
    { [kind |-> "reject", ok |-> FALSE, readable |-> FALSE, text |-> <<"e", "1">>,
       json |-> NoJson],
      [kind |-> "response", ok |-> FALSE, readable |-> TRUE, text |-> <<"e", "2">>,
       json |-> NoJson],
      [kind |-> "response", ok |-> TRUE, readable |-> TRUE, text |-> <<>>,
       json |-> [kind |-> "object", id |-> JStr(<<"i", "d", "1">>)]],
      [kind |-> "response", ok |-> TRUE, readable |-> TRUE, text |-> <<>>,
       json |-> [kind |-> "object", id |-> JStr(<<"i", "d", "2">>)]] }

ConcFetch(r) == FetchOf(r, ConcRequests)
ConcAfterJson(r) == AfterJsonOf(r, ConcBodies)
ConcAfterFetch(r) == AfterFetchOf(r, ConcOutcomes)

ConcNext ==
    \E r \in AllSlots :
        \/ ConcFetch(r)
        \/ ConcAfterJson(r)
        \/ ConcAfterFetch(r)
        \/ Discard(r)

ConcSpec == Init /\ [][ConcNext]_vars

(***************************************************************************)
(* The Validator's contract (spec 4.1), stated on the parsed body          *)
(***************************************************************************)
\* The value of a field of the submitted record; a body that is no record
\* has no fields.
Submitted(d, f) == IF d.kind = "object" THEN d[f] ELSE Undefined

IsText(v) == v.t = "string"
NonBlankText(v) == IsText(v) /\ \E i \in 1..Len(v.s) : v.s[i] \notin WhiteSpace

\* The checks of spec 4.1 that a body fails, by their number.
FailedChecks(d) ==
    {k \in 1..6 :
        CASE k = 1 -> ~NonBlankText(Submitted(d, "name"))
          [] k = 2 -> ~NonBlankText(Submitted(d, "email"))
          [] k = 3 -> ~(IsText(Submitted(d, "email")) /\ isValidEmail(Submitted(d, "email").s))
          [] k = 4 -> ~(IsText(Submitted(d, "projectType")) /\ Submitted(d, "projectType").s # <<>>)
          [] k = 5 -> ~NonBlankText(Submitted(d, "message"))
          [] k = 6 -> IsText(Submitted(d, "message"))
                        /\ Len(Submitted(d, "message").s) > MaxMessageLength}

CheckMessage ==
    << "Name is required", "Email is required", "Invalid email address",
       "Project type is required", "Message is required",
       "Message is too long (max 5000 characters)" >>

\* The reason the contract gives for a body that fails a check.
FirstFailure(d) == JStr(<<CheckMessage[Min(FailedChecks(d))]>>)

\* The body of request r parsed as JSON.
Parsed(r) == bodyUsed[r] /\ data[r].kind # "SyntaxError"

HeaderValue(headers, name) == (CHOOSE p \in headers : p[1] = name)[2]

C2_InvalidIs400 ==
    \A r \in AllSlots :
        (Parsed(r) /\ FailedChecks(data[r]) # {}) =>
            /\ pc[r] = "done"
            /\ response[r].status = 400
            /\ response[r].body = ErrorBody(FirstFailure(data[r]))
            /\ outbound[r] = <<>>

(***************************************************************************)
(* C3                                                                      *)
(***************************************************************************)
Entities == {Amp, Lt, Gt, Quot, Apos}

EntityAt(text, i) ==
    \E ent \in Entities :
        i + Len(ent) - 1 <= Len(text) /\ SubSeq(text, i, i + Len(ent) - 1) = ent

\* No character of an input stands raw in the text: none of < > " ' occurs,
\* and every & begins one of the five entities.  (Markup of the template is
\* made of segments longer than one character.)
NoRawMarkup(text) ==
    \A i \in 1..Len(text) :
        /\ text[i] \notin {"<", ">", "\"", "'"}
        /\ text[i] = "&" => EntityAt(text, i)

\* C3: in every HTML rendition handed to the mail endpoint, no < > & " ' of a
\* user-supplied field (name, email, company, projectType label, message)
\* appears raw.
C3_HtmlEscaped ==
    \A r \in AllSlots :
        \A k \in 1..Len(outbound[r]) :
            NoRawMarkup(HeaderValue(outbound[r][k].body, "html"))

(***************************************************************************)
(* C4                                                                      *)
(***************************************************************************)
\* The provider answered the outbound call of request r with a success
\* status and a JSON object containing an identifier.
ProviderSucceeded(r) ==
    /\ outcome[r].kind = "response"
    /\ outcome[r].ok
    /\ outcome[r].readable
    /\ outcome[r].json.kind = "object"
    /\ outcome[r].json.id # Undefined

\* C4: a request that passed the Content-Type check and the Validator, whose
\* outbound call the provider answered with a success status and a JSON
\* object containing an identifier, is answered 200 {success:true,
\* messageId:<that identifier>, message:'Email sent successfully'}.
C4_SuccessIs200 ==
    \A r \in AllSlots :
        (pc[r] = "done" /\ ProviderSucceeded(r)) =>
            /\ FailedChecks(data[r]) = {}
            /\ response[r].status = 200
            /\ response[r].body =
                 { <<"success", JTrue>>,
                   <<"messageId", outcome[r].json.id>>,
                   <<"message", JStr(<<"Email sent successfully">>)>> }

\* A submission with a company was delivered and answered 200 with the
\* provider's identifier.
C4_Witness ==
    \E r \in AllSlots :
        /\ pc[r] = "done"
        /\ ProviderSucceeded(r)
        /\ Truthy(data[r].company)
        /\ outcome[r].json.id = JStr(<<"i", "d", "2">>)
        /\ response[r].status = 200

(***************************************************************************)
(* C5                                                                      *)
(***************************************************************************)
\* C5: every 200 response carries a messageId that is a string.
C5_SuccessHasMessageId ==
    \A r \in AllSlots :
        (pc[r] = "done" /\ response[r].status = 200) =>
            \E p \in response[r].body : p[1] = "messageId" /\ p[2].t = "string"

(***************************************************************************)
(* C6                                                                      *)
(***************************************************************************)
\* The Delivery Client failed on the provider's answer: a transport error, a
\* non-success status, or a response that cannot be read or parsed.
ProviderFailed(r) ==
    \/ outcome[r].kind = "reject"
    \/ /\ outcome[r].kind = "response"
       /\ \/ ~outcome[r].ok
          \/ ~outcome[r].readable
          \/ outcome[r].json.kind = "SyntaxError"

\* C6: whenever the Delivery Client fails, the response is 500 with body
\* exactly {success:false, error:'Failed to send email. Please try again
\* later.'}, whatever the upstream error body or exception was.
C6_GenericFailure ==
    \A r \in AllSlots :
        (pc[r] = "done" /\ ProviderFailed(r)) =>
            /\ response[r].status = 500
            /\ response[r].body =
                 { <<"success", JFalse>>,
                   <<"error", JStr(<<"Failed to send email. Please try again later.">>)>> }

\* The provider refused with an error body and the caller got the generic
\* 500.
C6_Witness ==
    \E r \in AllSlots :
        /\ pc[r] = "done"
        /\ outcome[r].kind = "response"
        /\ ~outcome[r].ok
        /\ outcome[r].text = <<"e", "2">>
        /\ response[r].status = 500

(***************************************************************************)
(* C7                                                                      *)
(***************************************************************************)
\* C7: if an outbound request has been issued for an inbound request, the
\* request was a POST on /api/contact with a JSON Content-Type and its parsed
\* body passed all six Validator checks.
C7_OnlyValidatedDelivered ==
    \A r \in AllSlots :
        outbound[r] # <<>> =>
            /\ request[r].method = "POST"
            /\ request[r].pathname = "/api/contact"
            /\ IsText(request[r].contentType)
            /\ \E i \in 1..Len(request[r].contentType.s) :
                    request[r].contentType.s[i] = "application/json"
            /\ Parsed(r)
            /\ data[r].kind = "object"
            /\ FailedChecks(data[r]) = {}

\* An outbound request is in flight.
C7_Witness ==
    \E r \in AllSlots :
        /\ pc[r] = "fetch"
        /\ Len(outbound[r]) = 1
        /\ outbound[r][1].url = MailEndpoint

(***************************************************************************)
(* C8                                                                      *)
(***************************************************************************)
\* The allow-list: the configured list, split at commas and trimmed, or the
\* default pair when nothing is configured.
AllowList(e) ==
    IF IsText(e.ALLOWED_ORIGINS) /\ e.ALLOWED_ORIGINS.s # <<>>
    THEN Range(allowedOrigins(e))
    ELSE {<<"https://cybersoft.az">>, <<"https://www.cybersoft.az">>}

FirstAllowed(e) == allowedOrigins(e)[1]

AllowOrigin(r) == HeaderValue(corsHeaders[r], "Access-Control-Allow-Origin")

\* The request carries an Origin header.
HasOrigin(r) == request[r].origin # JNull

\* C8 as claimed: the header is the request's Origin when that origin is in
\* the allow-list, otherwise (absent or not in the list) the first entry.
C8_EchoWhenListed ==
    \A r \in AllSlots :
        pc[r] # "idle" =>
            IF HasOrigin(r) /\ request[r].origin.s \in AllowList(env)
            THEN AllowOrigin(r) = request[r].origin.s
            ELSE AllowOrigin(r) = FirstAllowed(env)

\* C8 (amended): the header is the request's Origin when that origin is
\* non-empty and in the allow-list, otherwise (absent, empty or not in the
\* list) the first entry of the allow-list; the header value is always a
\* member of the allow-list and a disallowed origin is never echoed.
C8_EchoWhenListedNonEmpty ==
    \A r \in AllSlots :
        pc[r] # "idle" =>
            /\ IF HasOrigin(r) /\ request[r].origin.s # <<>>
                    /\ request[r].origin.s \in AllowList(env)
               THEN AllowOrigin(r) = request[r].origin.s
               ELSE AllowOrigin(r) = FirstAllowed(env)
            /\ AllowOrigin(r) \in AllowList(env)
            /\ (HasOrigin(r) /\ request[r].origin.s \notin AllowList(env))
                    => AllowOrigin(r) # request[r].origin.s

\* An origin that the configuration lists second, between blanks, is echoed.
C8_Witness ==
    \E r \in AllSlots :
        /\ pc[r] # "idle"
        /\ IsText(env.ALLOWED_ORIGINS)
        /\ FirstAllowed(env) = <<"https://app.test">>
        /\ request[r].origin = JStr(<<"https://cybersoft.az">>)
        /\ AllowOrigin(r) = <<"https://cybersoft.az">>

(***************************************************************************)
(* C9                                                                      *)
(***************************************************************************)
CorsNames ==
    { "Access-Control-Allow-Origin", "Access-Control-Allow-Methods",
      "Access-Control-Allow-Headers", "Access-Control-Max-Age" }

\* C9: every response, on every path, carries the four CORS headers computed
\* for the request from its Origin header; the Access-Control-Allow-Origin
\* value depends on the Origin and the configuration only, not on the path
\* that produced the response.
C9_CorsOnEveryResponse ==
    \A r \in AllSlots :
        pc[r] = "done" =>
            /\ \A name \in CorsNames :
                    Cardinality({p \in response[r].headers : p[1] = name}) = 1
            /\ HeaderValue(response[r].headers, "Access-Control-Allow-Origin")
                    = (IF isAllowedOrigin(request[r].origin, env)
                       THEN request[r].origin.s
                       ELSE FirstAllowed(env))
            /\ HeaderValue(response[r].headers, "Access-Control-Allow-Methods")
                    = <<"POST, OPTIONS">>
            /\ HeaderValue(response[r].headers, "Access-Control-Allow-Headers")
                    = <<"Content-Type">>
            /\ HeaderValue(response[r].headers, "Access-Control-Max-Age") = <<"86400">>

\* The internal-error path (a body that is not JSON) answered with the CORS
\* headers, echoing an allowed origin.
C9_Witness ==
    \E r \in AllSlots :
        /\ pc[r] = "done"
        /\ data[r].kind = "SyntaxError"
        /\ response[r].status = 500
        /\ request[r].origin = JStr(<<"https://app.test">>)
        /\ HeaderValue(response[r].headers, "Access-Control-Allow-Origin")
                = <<"https://app.test">>

(***************************************************************************)
(* C10                                                                     *)
(***************************************************************************)
IsContactPost(r) == request[r].method = "POST" /\ request[r].pathname = "/api/contact"

\* C10: OPTIONS gets 204 with an empty body on any path; otherwise anything
\* but POST on exactly /api/contact gets 404 {success:false, error:'Not
\* Found'}; only POST on /api/contact enters the submission path; the 204 and
\* 404 paths neither read the body nor issue an outbound request.
C10_Routing ==
    \A r \in AllSlots :
        pc[r] # "idle" =>
            /\ request[r].method = "OPTIONS" =>
                    /\ pc[r] = "done"
                    /\ response[r].status = 204
                    /\ response[r].body = NoBody
            /\ (request[r].method # "OPTIONS" /\ ~IsContactPost(r)) =>
                    /\ pc[r] = "done"
                    /\ response[r].status = 404
                    /\ response[r].body =
                         {<<"success", JFalse>>, <<"error", JStr(<<"Not Found">>)>>}
            /\ IsContactPost(r) => response[r].status \notin {204, 404}
            /\ ~IsContactPost(r) => (~bodyUsed[r] /\ outbound[r] = <<>>)

\* A preflight on the contact path itself was answered 204 without the body
\* being read.
C10_Witness ==
    \E r \in AllSlots :
        /\ pc[r] = "done"
        /\ request[r].method = "OPTIONS"
        /\ request[r].pathname = "/api/contact"
        /\ response[r].status = 204
        /\ ~bodyUsed[r]

(***************************************************************************)
(* C11                                                                     *)
(***************************************************************************)
StructuredStatuses == {204, 404, 400, 500, 200}

\* The handler of slot r is either not running, suspended without having
\* responded, or has returned one structured response.
Handled(r) ==
    /\ pc[r] \in {"idle", "json", "fetch", "done"}
    /\ pc[r] = "done" => response[r].status \in StructuredStatuses
    /\ pc[r] # "done" => response[r] = NoResponse

\* C11: no failure escapes the handler: for every request, provided the
\* promises it awaits settle, the handler eventually returns exactly one
\* response, and that response is one of the outcomes 204, 404, 400, 500,
\* 200; the handler never ends in an unhandled exception.
C11_AlwaysResponds ==
    /\ [](\A r \in AllSlots : Handled(r))
    /\ \A r \in MainSlots : (pc[r] # "idle") ~> (pc[r] = "done")

\* A failure inside the handler (validateFormData throwing on a null body)
\* ended in a structured 500.
C11_Witness ==
    \E r \in AllSlots :
        /\ pc[r] = "done"
        /\ validation[r].threw
        /\ response[r].status = 500

(***************************************************************************)
(* C12                                                                     *)
(***************************************************************************)
\* C12: a POST to /api/contact whose Origin header is not in the allow-list
\* never causes an outbound request and never receives a 200.
C12_OnlyAllowedOrigins ==
    \A r \in AllSlots :
        (IsContactPost(r) /\ HasOrigin(r) /\ request[r].origin.s \notin AllowList(env)) =>
            /\ outbound[r] = <<>>
            /\ response[r].status # 200

(***************************************************************************)
(* C13                                                                     *)
(***************************************************************************)
\* The body of request r is a record that passes the checks on name, email
\* and projectType and carries a text as message.
OtherwiseValid(r) ==
    /\ Parsed(r)
    /\ data[r].kind = "object"
    /\ FailedChecks(data[r]) \cap {1, 2, 3, 4} = {}
    /\ IsText(data[r].message)

\* C13: of the submissions that are otherwise valid, the Validator rejects a
\* message of white space only, of any length, with 'Message is required',
\* rejects any other message longer than 5000 characters with 'Message is too
\* long (max 5000 characters)', and accepts every other message of up to
\* 5000 characters, 5000 included.
C13_LengthBoundary ==
    \A r \in AllSlots :
        OtherwiseValid(r) =>
            IF \A i \in 1..Len(data[r].message.s) : data[r].message.s[i] \in WhiteSpace
            THEN validation[r] = Invalid("Message is required")
            ELSE IF Len(data[r].message.s) >= 5001
            THEN validation[r] = Invalid("Message is too long (max 5000 characters)")
            ELSE validation[r] = Valid

\* A message of exactly 5000 characters was accepted and handed to the
\* Delivery Client.
C13_Witness ==
    \E r \in AllSlots :
        /\ OtherwiseValid(r)
        /\ Len(data[r].message.s) = 5000
        /\ validation[r].valid
        /\ Len(outbound[r]) = 1

\* 5001 characters were rejected as too long.
C13_WitnessTooLong ==
    \E r \in AllSlots :
        /\ OtherwiseValid(r)
        /\ Len(data[r].message.s) = 5001
        /\ validation[r].error = JStr(<<"Message is too long (max 5000 characters)">>)

\* 5001 blanks were rejected as a missing message.
C13_WitnessBlank ==
    \E r \in AllSlots :
        /\ OtherwiseValid(r)
        /\ Len(data[r].message.s) = 5001
        /\ validation[r].error = JStr(<<"Message is required">>)

(***************************************************************************)
(* C14                                                                     *)
(***************************************************************************)
\* The request's Content-Type header is present and indicates JSON.
JsonContentType(r) ==
    /\ IsText(request[r].contentType)
    /\ \E i \in 1..Len(request[r].contentType.s) :
            request[r].contentType.s[i] = "application/json"

ValidatorRan(r) == validation[r] # NoValidation

\* C14: on POST /api/contact the steps run in the order Content-Type check,
\* JSON parse, Validator, render and deliver, and the first failing step
\* decides the response: without a JSON Content-Type the answer is 400
\* 'Content-Type must be application/json' and the body is never read; a
\* body that is not JSON is answered 500 'Internal server error' without the
\* Validator having run; neither issues an outbound request.
C14_StepOrder ==
    \A r \in AllSlots :
        (pc[r] # "idle" /\ IsContactPost(r)) =>
            /\ ~JsonContentType(r) =>
                    /\ pc[r] = "done"
                    /\ response[r].status = 400
                    /\ response[r].body =
                         { <<"success", JFalse>>,
                           <<"error", JStr(<<"Content-Type must be application/json">>)>> }
                    /\ ~bodyUsed[r]
                    /\ ~ValidatorRan(r)
                    /\ outbound[r] = <<>>
            /\ (bodyUsed[r] /\ data[r].kind = "SyntaxError") =>
                    /\ pc[r] = "done"
                    /\ response[r].status = 500
                    /\ response[r].body =
                         { <<"success", JFalse>>,
                           <<"error", JStr(<<"Internal server error">>)>> }
                    /\ ~ValidatorRan(r)
                    /\ outbound[r] = <<>>
            /\ bodyUsed[r] => JsonContentType(r)
            /\ ValidatorRan(r) => Parsed(r)
            /\ outbound[r] # <<>> => validation[r] = Valid

\* A contact POST sent as text/plain was answered 400 with its body unread.
C14_Witness ==
    \E r \in AllSlots :
        /\ pc[r] = "done"
        /\ IsContactPost(r)
        /\ request[r].contentType = JStr(<<"text/plain">>)
        /\ response[r].status = 400
        /\ ~bodyUsed[r]

\* A contact POST whose body is not JSON was answered 500.
C14_WitnessParse ==
    \E r \in AllSlots :
        /\ pc[r] = "done"
        /\ IsContactPost(r)
        /\ bodyUsed[r] /\ data[r].kind = "SyntaxError"
        /\ response[r].status = 500

(***************************************************************************)
(* C15                                                                     *)
(***************************************************************************)
\* C15: over its whole lifetime a request causes at most one outbound
\* request to the mail endpoint; once the provider has answered or the
\* transport has failed, that single request is still the only one.
C15_SingleAttempt ==
    \A r \in AllSlots :
        /\ Len(outbound[r]) <= 1
        /\ outcome[r] # NoOutcome => Len(outbound[r]) = 1

\* The provider failed and the request was answered after its single
\* attempt.
C15_Witness ==
    \E r \in AllSlots :
        /\ pc[r] = "done"
        /\ outcome[r].kind = "reject"
        /\ response[r].status = 500
        /\ Len(outbound[r]) = 1

(***************************************************************************)
(* C17                                                                     *)
(***************************************************************************)
\* The label the claim gives a project-type text: the fixed label of the
\* four known codes, and the text itself for every other text.
ClaimedLabel(text) ==
    CASE text = Key_website -> <<"Website Development">>
      [] text = Key_saas -> <<"SaaS Platform">>
      [] text = Key_integration -> <<"Integration">>
      [] text = Key_other -> <<"Other">>
      [] OTHER -> text

\* `part` occurs in `text` as a contiguous run.
Occurs(part, text) ==
    \E i \in 1..(Len(text) - Len(part) + 1) :
        SubSeq(text, i, i + Len(part) - 1) = part

\* C17: in every outbound email the subject line, the text rendition and the
\* HTML rendition carry, for a non-empty text projectType, the fixed label
\* of the four known codes and otherwise exactly the submitted text.
C17_LabelIsCodeOrText ==
    \A r \in AllSlots :
        \A k \in 1..Len(outbound[r]) :
            (IsText(data[r].projectType) /\ data[r].projectType.s # <<>>) =>
                LET label == ClaimedLabel(data[r].projectType.s)
                    body == outbound[r][k].body
                IN  /\ HeaderValue(body, "subject") =
                          <<"New Contact: ">> \o data[r].name.s \o <<" - ">> \o label
                    /\ Occurs(<<"Project Type: ">> \o label \o <<"\n\nMessage:\n">>,
                              HeaderValue(body, "text"))
                    /\ Occurs(<<"<div class=\"field\"><span class=\"label\">Project Type</span><div class=\"value\">">>
                              \o label, HeaderValue(body, "html"))

(***************************************************************************)
(* C16                                                                     *)
(***************************************************************************)
\* Everything the handler holds for request r.
SlotState(r) ==
    <<pc[r], request[r], corsHeaders[r], bodyUsed[r], data[r], validation[r],
      outbound[r], outcome[r], result[r], response[r]>>

\* The response and the outbound requests of r are what the handler computes
\* from r's own request, body and provider outcome (and the environment).
OwnResponse(r) ==
    LET cors == getCorsHeaders(request[r].origin, env)
        entry == fetchEntry(request[r], cors)
    IN  IF entry.at # "json"
        THEN response[r] = entry.response /\ outbound[r] = <<>>
        ELSE IF ~bodyUsed[r]
        THEN response[r] = NoResponse /\ outbound[r] = <<>>
        ELSE LET step == fetchAfterJson(data[r], cors, env)
             IN  /\ outbound[r] = step.issued
                 /\ IF step.at = "done"
                    THEN response[r] = step.response
                    ELSE IF outcome[r] = NoOutcome
                    THEN response[r] = NoResponse
                    ELSE response[r] =
                            fetchAfterSend(sendEmailResult(outcome[r]), cors)

\* C16: concurrently handled requests do not interfere: in every
\* interleaving, the response to each request and its outbound email are a
\* function of that request's own method, path, headers, body and provider
\* outcome, and a step of one request changes nothing that belongs to
\* another.
C16_NoInterference ==
    /\ [](\A r \in AllSlots : pc[r] # "idle" => OwnResponse(r))
    /\ [][\E q \in AllSlots :
            \A r \in AllSlots \ {q} : SlotState(r)' = SlotState(r)]_vars

\* Two requests from different origins with different records were both
\* suspended at their outbound calls; the later one was resumed and
\* answered first, with a different outcome still to come for the other.
C16_Witness ==
    \E r, q \in AllSlots :
        /\ r # q
        /\ pc[r] = "fetch" /\ pc[q] = "done"
        /\ outcome[q].kind = "reject"
        /\ request[r].origin # request[q].origin
        /\ data[r] # data[q]
        /\ outbound[r] # <<>> /\ outbound[q] # <<>>
        /\ response[q].status = 500

=============================================================================
